---- MODULE Spec2Model ----
(***************************************************************************)
(* Model of the shared browser/page lifecycle of mcp/server.js: the two    *)
(* module globals globalBrowser and globalPage, getChromeExecutablePath,   *)
(* getBrowser, getPage and the registered tool handlers.  Every `await` of *)
(* the source is a point where another tool invocation, or the browser     *)
(* itself (disconnection, a page being closed), may take a step.           *)
(***************************************************************************)
EXTENDS Integers, Sequences, FiniteSets, TLC

\* ---------------------------------------------------------------- bounds
MaxBrowsers == 2      \* browsers that puppeteer.launch may hand out
MaxExisting == 2      \* candidate files present on disk at once
MaxPages == 2         \* pages ever opened in one browser
NumSlots == 2         \* invocations that may be in flight at once

Slots == 1..NumSlots
Browsers == 1..MaxBrowsers
Null == 0
NoPage == <<0, 0>>

VARIABLES
  globalBrowser,   \* server.js:15  Null or the id of a launched browser
  globalPage,      \* server.js:16  NoPage or <<browser, page index>>
  nLaunched,       \* browsers 1..nLaunched were returned by puppeteer.launch
  connected,       \* connected[b]: browser.isConnected()
  open,            \* open[b]: indices of the pages of b that are not closed
  created,         \* created[b]: pages ever opened in b while it is connected
  uaPages,         \* open pages on which setUserAgent has completed
  exitHooks,       \* number of listeners registered with process.on('exit')
  exited,          \* the process has emitted 'exit'
  closeCalls,      \* browser.close() calls made by the exit listeners
  closeTarget,     \* the browser those calls were made on (Null: none)
  pageUrl,         \* pageUrl[p]: page.url() of page p
  lastNav,         \* page and landing URL of the last page.goto that resolved
  resolveEnv,      \* SpecResolve: what a getChromeExecutablePath call reads:
                   \* process.env, process.platform, the existing files
  resolveResult,   \* SpecResolve: what that call returned or threw
  inv              \* inv[i]: the invocation in slot i: its position, its
                   \* locals and what it has done so far

vars == <<globalBrowser, globalPage, nLaunched, connected, open, created,
          uaPages, exitHooks, exited, closeCalls, closeTarget, pageUrl,
          lastNav, resolveEnv, resolveResult, inv>>

browserVars == <<nLaunched, connected, open, created>>
exitVars == <<exited, closeCalls, closeTarget>>
globals == <<globalBrowser, globalPage>>
navVars == <<pageUrl, lastNav>>
resolveVars == <<resolveEnv, resolveResult>>

\* ------------------------------------------------- executable resolution
\* Candidate lists of getChromeExecutablePath, in source order.
windowsPaths == <<"pf/chrome.exe", "pf86/chrome.exe", "local/chrome.exe",
                  "pf/msedge.exe", "pf86/msedge.exe">>
macPaths == <<"/Applications/Google Chrome.app", "/Applications/Microsoft Edge.app">>
linuxPaths == <<"/usr/bin/google-chrome", "/usr/bin/google-chrome-stable",
                "/usr/bin/chromium", "/usr/bin/chromium-browser",
                "/snap/bin/chromium", "/opt/google/chrome/chrome">>

\* Array.prototype.find(p => fs.existsSync(p)): first existing element, or
\* "" for undefined.
RECURSIVE find(_, _)
find(paths, exists) ==
  IF paths = <<>> THEN ""
  ELSE IF Head(paths) \in exists THEN Head(paths)
  ELSE find(Tail(paths), exists)

\* The process.env names the win32 branch passes to path.join
\* (server.js:27-31).
WinVars == {"PROGRAMFILES", "PROGRAMFILES(X86)", "LOCALAPPDATA"}

\* env = [override, platform, defined, exists]: PUPPETEER_EXECUTABLE_PATH
\* ("" when unset or empty), process.platform, the names of WinVars that
\* are set, and the files fs.existsSync finds.  Result: [ok, val];
\* ok = FALSE is a throw whose message is val.  On win32 the whole array
\* literal is built before find runs, and path.join throws a TypeError on
\* an undefined argument.
getChromeExecutablePath(env) ==
  IF env.override # "" THEN [ok |-> TRUE, val |-> env.override]
  ELSE IF env.platform \notin {"win32", "darwin", "linux"}
       THEN [ok |-> FALSE, val |-> "Unsupported platform"]
  ELSE IF env.platform = "win32" /\ ~(WinVars \subseteq env.defined)
       THEN [ok |-> FALSE, val |-> "TypeError"]
  ELSE LET paths == CASE env.platform = "win32" -> windowsPaths
                      [] env.platform = "darwin" -> macPaths
                      [] OTHER -> linuxPaths
           executablePath == find(paths, env.exists)
       IN IF executablePath = ""
          THEN [ok |-> FALSE, val |-> "Chrome executable not found."]
          ELSE [ok |-> TRUE, val |-> executablePath]

\* Process environments a launch may find itself in.
Envs ==
  { [override |-> "/custom/chrome", platform |-> "linux", defined |-> {},
     exists |-> {}],
    [override |-> "", platform |-> "linux", defined |-> {},
     exists |-> {"/usr/bin/chromium"}],
    [override |-> "", platform |-> "win32", defined |-> WinVars,
     exists |-> {}],
    [override |-> "", platform |-> "freebsd", defined |-> {},
     exists |-> {"/usr/bin/chromium"}] }

\* No getChromeExecutablePath call has been made.
NoResult == [ok |-> FALSE, val |-> ""]
NoEnv == [override |-> "", platform |-> "", defined |-> {}, exists |-> {}]

\* The variable each win32 candidate is built from (server.js:27-31).
WinVarOf(p) ==
  CASE p \in {"pf/chrome.exe", "pf/msedge.exe"} -> "PROGRAMFILES"
    [] p \in {"pf86/chrome.exe", "pf86/msedge.exe"} -> "PROGRAMFILES(X86)"
    [] OTHER -> "LOCALAPPDATA"

Range(f) == {f[k] : k \in DOMAIN f}
Platforms == {"win32", "darwin", "linux", "freebsd"}
Files == Range(windowsPaths) \cup Range(macPaths) \cup Range(linuxPaths)
           \cup {"/custom/chrome"}
\* A file under a directory whose variable is unset is not considered to
\* exist.
Existing(defined) ==
  {S \in SUBSET Files :
     /\ Cardinality(S) <= MaxExisting
     /\ \A p \in S \cap Range(windowsPaths) : WinVarOf(p) \in defined}
\* The environments a getChromeExecutablePath call may be made in.
ResolveEnvs ==
  {e \in [override : {"", "/custom/chrome"}, platform : Platforms,
           defined : SUBSET WinVars, exists : SUBSET Files] :
     e.exists \in Existing(e.defined)}

\* ------------------------------------------------------------------ URLs
Blank == "about:blank"
Urls == {"https://a.example/", "https://b.example/"}
\* page.goto(u) resolves once the page has landed, on u or on the target of
\* a redirect.
Landing(u) == IF u = Blank THEN {Blank} ELSE {u, "https://r.example/"}
Pages == Browsers \X (1..MaxPages)
NoNav == [page |-> NoPage, url |-> ""]

\* ------------------------------------------------------------ invocations
Tools == {"navigate", "click", "fill", "evaluate", "inspect",
          "take-screenshot", "performance-entries", "lighthouse-report"}

NoErr == [kind |-> "none", prefix |-> "", cause |-> ""]
Raw(cause) == [kind |-> "raw", prefix |-> "", cause |-> cause]
Wrapped(prefix, cause) == [kind |-> "wrapped", prefix |-> prefix, cause |-> cause]

IdleInv == [pc |-> "idle", tool |-> "", url |-> "", hasMark |-> FALSE,
            ctx |-> "", browser |-> Null, page |-> NoPage,
            recvB |-> Null, recvP |-> NoPage, port |-> Null, err |-> NoErr,
            \* history of the invocation while it is in flight:
            \* puppeteer.launch calls it made, whether the stored session
            \* was disconnected when it was invoked, whether a browser
            \* disconnected between the audit's two session lookups, and
            \* the value its last getBrowser call has just returned, and the
            \* page.goto calls of it that resolved
            launchCalls |-> 0, startDisc |-> FALSE, discDuring |-> FALSE,
            ret |-> -1, navs |-> 0]

Finished == {"idle", "done", "failed"}
InFlight(i) == inv[i].pc \notin Finished

\* A handler that throws: the locals are gone, the error reaches the facade.
Failed(r, e) == [IdleInv EXCEPT !.pc = "failed", !.tool = r.tool,
                                !.url = r.url, !.hasMark = r.hasMark,
                                !.err = e]
\* A handler that returns its content.
Done(r) == [IdleInv EXCEPT !.pc = "done", !.tool = r.tool,
                           !.url = r.url, !.hasMark = r.hasMark]

\* ------------------------------------------------------- browser library
IsConnected(b) == b \in 1..nLaunched /\ connected[b]
IsClosed(p) == ~(p[1] \in 1..nLaunched /\ p[2] \in open[p[1]])
PageAlive(p) == p # NoPage /\ IsConnected(p[1]) /\ ~IsClosed(p)

Min(S) == CHOOSE x \in S : \A y \in S : x <= y

\* Messages a rejected page call may carry: the target is gone, or the
\* call's own failure (its timeout when it has one).
PageFailures(p, timed) ==
  IF ~PageAlive(p) THEN {"TargetClosed"}
  ELSE IF timed THEN {"Timeout", "ProtocolError"} ELSE {"ProtocolError"}

BrowserFailures(b) ==
  IF ~IsConnected(b) THEN {"TargetClosed"} ELSE {"ProtocolError"}

Init ==
  /\ globalBrowser = Null
  /\ globalPage = NoPage
  /\ nLaunched = 0
  /\ connected = [b \in Browsers |-> FALSE]
  /\ open = [b \in Browsers |-> {}]
  /\ created = [b \in Browsers |-> 0]
  /\ uaPages = {}
  /\ exitHooks = 0
  /\ exited = FALSE
  /\ closeCalls = 0
  /\ closeTarget = Null
  /\ pageUrl = [p \in Pages |-> Blank]
  /\ lastNav = NoNav
  /\ resolveEnv = NoEnv
  /\ resolveResult = NoResult
  /\ inv = [i \in Slots |-> IdleInv]

\* ------------------------------------------------------------ frame helpers
\* A step of invocation i that changes only that invocation's own record.
Only(i, r) ==
  /\ inv' = [inv EXCEPT ![i] = r]
  /\ UNCHANGED <<globals, browserVars, uaPages, exitHooks, exitVars, navVars, resolveVars>>

\* Continuation of the caller of getBrowser once it has returned retval:
\* the audit handler keeps the value (server.js:284), getPage drops it
\* (server.js:100).
AfterGetBrowser(r, retval) ==
  IF r.ctx = "lh"
  THEN [r EXCEPT !.pc = "lh_browser", !.browser = retval, !.ret = retval,
                 !.recvB = Null, !.recvP = NoPage]
  ELSE [r EXCEPT !.pc = "gp_check", !.ret = retval,
                 !.recvB = Null, !.recvP = NoPage]

\* Continuation of a handler once `await getPage()` has given it page p: the
\* synchronous code up to the handler's next await.
AfterGetPage(r, p) ==
  LET q == [r EXCEPT !.page = p, !.recvB = Null, !.recvP = NoPage,
                     !.ret = -1] IN
  CASE r.tool = "navigate" -> [q EXCEPT !.pc = "nav_goto"]
    [] r.tool = "click" -> [q EXCEPT !.pc = "cl_wait"]
    [] r.tool = "fill" -> [q EXCEPT !.pc = "fl_wait"]
    [] r.tool = "evaluate" -> [q EXCEPT !.pc = "ev_eval"]
    [] r.tool = "inspect" -> [q EXCEPT !.pc = "in_snap"]
    [] r.tool = "take-screenshot" -> [q EXCEPT !.pc = "ss_shot"]
    [] r.tool = "performance-entries" ->
         [q EXCEPT !.pc = IF r.url # "" THEN "pe_goto"
                          ELSE IF r.hasMark THEN "pe_wait" ELSE "pe_eval"]
    [] OTHER ->   \* lighthouse-report: page.url(), browser.wsEndpoint()
         IF r.browser = Null THEN Failed(r, Raw("TypeError"))
         ELSE [q EXCEPT !.pc = "lh_run", !.port = r.browser]

\* ----------------------------------------------------------- getBrowser
\* getBrowserEntry without the isConnected() test of server.js:67: every call
\* launches.
getBrowserEntryRelaunch(i, r) ==
  /\ globalBrowser' = Null
  /\ globalPage' = IF globalBrowser # Null THEN NoPage ELSE globalPage
  /\ \E env \in Envs :
       LET exe == getChromeExecutablePath(env) IN
       inv' = [inv EXCEPT ![i] =
                 IF exe.ok
                 THEN [r EXCEPT !.pc = "gb_launch", !.ret = -1,
                                !.launchCalls = @ + 1]
                 ELSE Failed(r, Raw(exe.val))]

\* getBrowserEntry that returns whatever is stored (`if (globalBrowser)
\* return globalBrowser`): a disconnected session is handed out again.
getBrowserEntryStale(i, r) ==
  IF globalBrowser # Null
  THEN /\ inv' = [inv EXCEPT ![i] = AfterGetBrowser(r, globalBrowser)]
       /\ UNCHANGED globals
  ELSE /\ UNCHANGED globals
       /\ \E env \in Envs :
            LET exe == getChromeExecutablePath(env) IN
            inv' = [inv EXCEPT ![i] =
                      IF exe.ok
                      THEN [r EXCEPT !.pc = "gb_launch", !.ret = -1,
                                     !.launchCalls = @ + 1]
                      ELSE Failed(r, Raw(exe.val))]

\* getBrowserEntry without the cleanup of server.js:70-72: the launch is
\* started with the disconnected session and its page still stored.
getBrowserEntryNoClear(i, r) ==
  IF IsConnected(globalBrowser)
  THEN /\ inv' = [inv EXCEPT ![i] = AfterGetBrowser(r, globalBrowser)]
       /\ UNCHANGED globals
  ELSE /\ UNCHANGED globals
       /\ \E env \in Envs :
            LET exe == getChromeExecutablePath(env) IN
            inv' = [inv EXCEPT ![i] =
                      IF exe.ok
                      THEN [r EXCEPT !.pc = "gb_launch", !.ret = -1,
                                     !.launchCalls = @ + 1]
                      ELSE Failed(r, Raw(exe.val))]

\* server.js:66-81: the synchronous head of getBrowser up to the await of
\* puppeteer.launch, run by the invocation in slot i whose record is r.
getBrowserEntry(i, r) ==
  IF IsConnected(globalBrowser)
  THEN /\ inv' = [inv EXCEPT ![i] = AfterGetBrowser(r, globalBrowser)]
       /\ UNCHANGED globals
  ELSE /\ globalBrowser' = Null
       /\ globalPage' = IF globalBrowser # Null THEN NoPage ELSE globalPage
       /\ \E env \in Envs :
            LET exe == getChromeExecutablePath(env) IN
            inv' = [inv EXCEPT ![i] =
                      IF exe.ok
                      THEN [r EXCEPT !.pc = "gb_launch", !.ret = -1,
                                     !.launchCalls = @ + 1]
                      ELSE Failed(r, Raw(exe.val))]

\* The dispatch facade calls a registered handler; the handler runs up to
\* its first await inside getBrowser.
Invoke(i, tool, u, m) ==
  /\ ~exited
  /\ inv[i].pc = "idle"
  /\ getBrowserEntry(i,
       [IdleInv EXCEPT !.tool = tool, !.url = u, !.hasMark = m,
          !.ctx = IF tool = "lighthouse-report" THEN "lh" ELSE "gp",
          !.startDisc = (globalBrowser # Null /\ ~IsConnected(globalBrowser))])
  /\ UNCHANGED <<browserVars, uaPages, exitHooks, exitVars, navVars, resolveVars>>

\* server.js:76 resolves: the browser is stored and globalBrowser.pages()
\* is called (server.js:84).
LaunchDone(i) ==
  /\ ~exited
  /\ inv[i].pc = "gb_launch"
  /\ nLaunched < MaxBrowsers
  /\ LET b == nLaunched + 1 IN
       /\ nLaunched' = b
       /\ connected' = [connected EXCEPT ![b] = TRUE]
       /\ open' = [open EXCEPT ![b] = {1}]
       /\ created' = [created EXCEPT ![b] = 1]
       /\ globalBrowser' = b
       /\ inv' = [inv EXCEPT ![i] = [@ EXCEPT !.pc = "gb_pages", !.recvB = b]]
  /\ UNCHANGED <<globalPage, uaPages, exitHooks, exitVars, navVars, resolveVars>>

\* server.js:76 rejects: nothing is stored, the error leaves getBrowser.
LaunchFail(i) ==
  /\ ~exited
  /\ inv[i].pc = "gb_launch"
  /\ Only(i, Failed(inv[i], Raw("LaunchError")))

\* server.js:84-88: pages() resolves; the first page becomes globalPage and
\* setUserAgent is called on it, or newPage() is called on globalBrowser.
GbPages(i) ==
  /\ ~exited
  /\ inv[i].pc = "gb_pages"
  /\ LET r == inv[i]
         b == r.recvB
     IN \/ /\ IsConnected(b)
           /\ IF open[b] # {}
              THEN LET p == <<b, Min(open[b])>> IN
                   /\ globalPage' = p
                   /\ inv' = [inv EXCEPT ![i] =
                         [r EXCEPT !.pc = "gb_setUA", !.recvB = Null,
                                   !.recvP = p]]
              ELSE /\ globalPage' = globalPage
                   /\ inv' = [inv EXCEPT ![i] =
                         IF globalBrowser = Null
                         THEN Failed(r, Raw("TypeError"))
                         ELSE [r EXCEPT !.pc = "gb_newPage",
                                        !.recvB = globalBrowser]]
        \/ /\ \E c \in BrowserFailures(b) :
                inv' = [inv EXCEPT ![i] = Failed(r, Raw(c))]
           /\ globalPage' = globalPage
  /\ UNCHANGED <<globalBrowser, browserVars, uaPages, exitHooks, exitVars, navVars, resolveVars>>

\* server.js:85,88: newPage() resolves; the page becomes globalPage and
\* setUserAgent is called on it.
GbNewPage(i) ==
  /\ ~exited
  /\ inv[i].pc = "gb_newPage"
  /\ LET r == inv[i]
         b == r.recvB
     IN \/ /\ IsConnected(b)
           /\ created[b] < MaxPages
           /\ LET p == <<b, created[b] + 1>> IN
              /\ created' = [created EXCEPT ![b] = @ + 1]
              /\ open' = [open EXCEPT ![b] = @ \cup {p[2]}]
              /\ globalPage' = p
              /\ inv' = [inv EXCEPT ![i] =
                    [r EXCEPT !.pc = "gb_setUA", !.recvB = Null, !.recvP = p]]
        \/ /\ \E c \in BrowserFailures(b) :
                inv' = [inv EXCEPT ![i] = Failed(r, Raw(c))]
           /\ UNCHANGED <<created, open, globalPage>>
  /\ UNCHANGED <<globalBrowser, nLaunched, connected, uaPages, exitHooks,
                 exitVars, navVars, resolveVars>>

\* server.js:88-95: setUserAgent resolves; the exit listener is registered
\* and getBrowser returns the globalBrowser of that moment.
GbSetUA(i) ==
  /\ ~exited
  /\ inv[i].pc = "gb_setUA"
  /\ LET r == inv[i]
         p == r.recvP
     IN \/ /\ PageAlive(p)
           /\ uaPages' = uaPages \cup {p}
           /\ exitHooks' = exitHooks + 1
           /\ inv' = [inv EXCEPT ![i] = AfterGetBrowser(r, globalBrowser)]
        \/ /\ \E c \in PageFailures(p, FALSE) :
                inv' = [inv EXCEPT ![i] = Failed(r, Raw(c))]
           /\ UNCHANGED <<uaPages, exitHooks>>
  /\ UNCHANGED <<globals, browserVars, exitVars, navVars, resolveVars>>

\* -------------------------------------------------------------- getPage
\* GpCheck that keeps the stored page for navigate only: every other tool
\* is given a page opened for it.
GpCheckOwnPage(i) ==
  /\ ~exited
  /\ inv[i].pc = "gp_check"
  /\ LET r == inv[i] IN
     Only(i, IF globalBrowser = Null THEN Failed(r, Raw("TypeError"))
             ELSE IF r.tool = "navigate" /\ globalPage # NoPage
                     /\ ~IsClosed(globalPage)
             THEN AfterGetPage(r, globalPage)
             ELSE [r EXCEPT !.pc = "gp_newPage", !.recvB = globalBrowser,
                            !.ret = -1])

\* server.js:101-105 after `await getBrowser()`.
GpCheck(i) ==
  /\ ~exited
  /\ inv[i].pc = "gp_check"
  /\ LET r == inv[i] IN
     Only(i, IF globalPage = NoPage \/ IsClosed(globalPage)
             THEN IF globalBrowser = Null THEN Failed(r, Raw("TypeError"))
                  ELSE [r EXCEPT !.pc = "gp_pages", !.recvB = globalBrowser,
                                 !.ret = -1]
             ELSE AfterGetPage(r, globalPage))

\* server.js:102-105: pages() resolves inside getPage.
GpPages(i) ==
  /\ ~exited
  /\ inv[i].pc = "gp_pages"
  /\ LET r == inv[i]
         b == r.recvB
     IN \/ /\ IsConnected(b)
           /\ IF open[b] # {}
              THEN LET p == <<b, Min(open[b])>> IN
                   /\ globalPage' = p
                   /\ inv' = [inv EXCEPT ![i] = AfterGetPage(r, p)]
              ELSE /\ globalPage' = globalPage
                   /\ inv' = [inv EXCEPT ![i] =
                         IF globalBrowser = Null
                         THEN Failed(r, Raw("TypeError"))
                         ELSE [r EXCEPT !.pc = "gp_newPage",
                                        !.recvB = globalBrowser]]
        \/ /\ \E c \in BrowserFailures(b) :
                inv' = [inv EXCEPT ![i] = Failed(r, Raw(c))]
           /\ globalPage' = globalPage
  /\ UNCHANGED <<globalBrowser, browserVars, uaPages, exitHooks, exitVars, navVars, resolveVars>>

\* server.js:103-105: newPage() resolves inside getPage.
GpNewPage(i) ==
  /\ ~exited
  /\ inv[i].pc = "gp_newPage"
  /\ LET r == inv[i]
         b == r.recvB
     IN \/ /\ IsConnected(b)
           /\ created[b] < MaxPages
           /\ LET p == <<b, created[b] + 1>> IN
              /\ created' = [created EXCEPT ![b] = @ + 1]
              /\ open' = [open EXCEPT ![b] = @ \cup {p[2]}]
              /\ globalPage' = p
              /\ inv' = [inv EXCEPT ![i] = AfterGetPage(r, p)]
        \/ /\ \E c \in BrowserFailures(b) :
                inv' = [inv EXCEPT ![i] = Failed(r, Raw(c))]
           /\ UNCHANGED <<created, open, globalPage>>
  /\ UNCHANGED <<globalBrowser, nLaunched, connected, uaPages, exitHooks,
                 exitVars, navVars, resolveVars>>

\* ------------------------------------------------------------- handlers
\* server.js:284-285: the audit handler has its browser and calls getPage,
\* whose first statement calls getBrowser again.
LhGetPage(i) ==
  /\ ~exited
  /\ inv[i].pc = "lh_browser"
  /\ getBrowserEntry(i, [inv[i] EXCEPT !.ctx = "gp"])
  /\ UNCHANGED <<browserVars, uaPages, exitHooks, exitVars, navVars, resolveVars>>

\* page.goto(url) of invocation i resolves on its page, which has landed;
\* the invocation goes on as r.
Navigated(i, r) ==
  \E u \in Landing(inv[i].url) :
    /\ pageUrl' = [pageUrl EXCEPT ![inv[i].page] = u]
    /\ lastNav' = [page |-> inv[i].page, url |-> u]
    /\ inv' = [inv EXCEPT ![i] =
                 IF r.pc \in Finished THEN r ELSE [r EXCEPT !.navs = @ + 1]]
    /\ UNCHANGED <<globals, browserVars, uaPages, exitHooks, exitVars,
                   resolveVars>>

\* NavGoto with a handler that closes and forgets the session when the
\* navigation times out.
NavGotoTeardown(i) ==
  /\ ~exited
  /\ inv[i].pc = "nav_goto"
  /\ \/ PageAlive(inv[i].page) /\ Navigated(i, Done(inv[i]))
     \/ /\ PageAlive(inv[i].page)
        /\ inv' = [inv EXCEPT ![i] = Failed(inv[i], Raw("Timeout"))]
        /\ globalBrowser' = Null
        /\ globalPage' = NoPage
        /\ UNCHANGED <<browserVars, uaPages, exitHooks, exitVars, navVars, resolveVars>>
     \/ \E c \in PageFailures(inv[i].page, FALSE) :
          Only(i, Failed(inv[i], Raw(c)))

\* server.js:126-127: page.goto settles (timeout 30000).
NavGoto(i) ==
  /\ ~exited
  /\ inv[i].pc = "nav_goto"
  /\ \/ PageAlive(inv[i].page) /\ Navigated(i, Done(inv[i]))
     \/ \E c \in PageFailures(inv[i].page, TRUE) :
          Only(i, Failed(inv[i], Raw(c)))

\* ClickWait with waitForSelector outside the try block: its rejection
\* leaves the handler as it is.
ClickWaitRaw(i) ==
  /\ ~exited
  /\ inv[i].pc = "cl_wait"
  /\ \/ PageAlive(inv[i].page) /\ Only(i, [inv[i] EXCEPT !.pc = "cl_act"])
     \/ \E c \in PageFailures(inv[i].page, TRUE) :
          Only(i, Failed(inv[i], Raw(c)))

\* server.js:143,146-148: waitForSelector settles (timeout 5000).
ClickWait(i) ==
  /\ ~exited
  /\ inv[i].pc = "cl_wait"
  /\ \/ PageAlive(inv[i].page) /\ Only(i, [inv[i] EXCEPT !.pc = "cl_act"])
     \/ \E c \in PageFailures(inv[i].page, TRUE) :
          Only(i, Failed(inv[i], Wrapped("Failed to click", c)))

\* server.js:144-148: page.click settles.
ClickAct(i) ==
  /\ ~exited
  /\ inv[i].pc = "cl_act"
  /\ \/ PageAlive(inv[i].page) /\ Only(i, Done(inv[i]))
     \/ \E c \in PageFailures(inv[i].page, FALSE) :
          Only(i, Failed(inv[i], Wrapped("Failed to click", c)))

\* server.js:165,168-170: waitForSelector settles (timeout 5000).
FillWait(i) ==
  /\ ~exited
  /\ inv[i].pc = "fl_wait"
  /\ \/ PageAlive(inv[i].page) /\ Only(i, [inv[i] EXCEPT !.pc = "fl_act"])
     \/ \E c \in PageFailures(inv[i].page, TRUE) :
          Only(i, Failed(inv[i], Wrapped("Failed to fill", c)))

\* server.js:166-170: page.type settles.
FillAct(i) ==
  /\ ~exited
  /\ inv[i].pc = "fl_act"
  /\ \/ PageAlive(inv[i].page) /\ Only(i, Done(inv[i]))
     \/ \E c \in PageFailures(inv[i].page, FALSE) :
          Only(i, Failed(inv[i], Wrapped("Failed to fill", c)))

\* server.js:187-194: page.evaluate settles.
Evaluate(i) ==
  /\ ~exited
  /\ inv[i].pc = "ev_eval"
  /\ \/ PageAlive(inv[i].page) /\ Only(i, Done(inv[i]))
     \/ \E c \in PageFailures(inv[i].page, FALSE) :
          Only(i, Failed(inv[i], Wrapped("Script execution failed", c)))

\* server.js:207-208: page.accessibility.snapshot settles.
Inspect(i) ==
  /\ ~exited
  /\ inv[i].pc = "in_snap"
  /\ \/ PageAlive(inv[i].page) /\ Only(i, Done(inv[i]))
     \/ \E c \in PageFailures(inv[i].page, FALSE) :
          Only(i, Failed(inv[i], Raw(c)))

\* server.js:225-228: page.screenshot settles.
Screenshot(i) ==
  /\ ~exited
  /\ inv[i].pc = "ss_shot"
  /\ \/ PageAlive(inv[i].page) /\ Only(i, Done(inv[i]))
     \/ \E c \in PageFailures(inv[i].page, FALSE) :
          Only(i, Failed(inv[i], Raw(c)))

\* PerfGoto whose page.goto resolves without the page having gone anywhere.
PerfGotoNoNav(i) ==
  /\ ~exited
  /\ inv[i].pc = "pe_goto"
  /\ \/ /\ PageAlive(inv[i].page)
        /\ Only(i, [inv[i] EXCEPT !.pc = IF inv[i].hasMark
                                         THEN "pe_wait" ELSE "pe_eval"])
     \/ \E c \in PageFailures(inv[i].page, TRUE) :
          Only(i, Failed(inv[i], Raw(c)))

\* server.js:245-251: page.goto settles (timeout 30000).
PerfGoto(i) ==
  /\ ~exited
  /\ inv[i].pc = "pe_goto"
  /\ \/ /\ PageAlive(inv[i].page)
        /\ Navigated(i, [inv[i] EXCEPT !.pc = IF inv[i].hasMark
                                              THEN "pe_wait" ELSE "pe_eval"])
     \/ \E c \in PageFailures(inv[i].page, TRUE) :
          Only(i, Failed(inv[i], Raw(c)))

\* server.js:250-253: page.waitForFunction settles (timeout 5000).
PerfWait(i) ==
  /\ ~exited
  /\ inv[i].pc = "pe_wait"
  /\ \/ PageAlive(inv[i].page) /\ Only(i, [inv[i] EXCEPT !.pc = "pe_eval"])
     \/ \E c \in PageFailures(inv[i].page, TRUE) :
          Only(i, Failed(inv[i], Raw(c)))

\* server.js:253-254: page.evaluate settles.
PerfEval(i) ==
  /\ ~exited
  /\ inv[i].pc = "pe_eval"
  /\ \/ PageAlive(inv[i].page) /\ Only(i, Done(inv[i]))
     \/ \E c \in PageFailures(inv[i].page, FALSE) :
          Only(i, Failed(inv[i], Raw(c)))

\* server.js:296-305: lighthouse settles; the report is parsed and read.
LhRun(i) ==
  /\ ~exited
  /\ inv[i].pc = "lh_run"
  /\ \/ IsConnected(inv[i].port) /\ Only(i, Done(inv[i]))
     \/ \E c \in {"AuditError", "MalformedReport"} :
          Only(i, Failed(inv[i], Raw(c)))

\* The facade sends the handler's result or error as the tool response.
Return(i) ==
  /\ ~exited
  /\ inv[i].pc \in {"done", "failed"}
  /\ inv' = [inv EXCEPT ![i] = IdleInv]
  /\ UNCHANGED <<globals, browserVars, uaPages, exitHooks, exitVars, navVars, resolveVars>>

\* ---------------------------------------------------------- environment
\* The browser process dies or its connection drops: isConnected() turns
\* false and every page of it reports isClosed().
Disconnect(b) ==
  /\ ~exited
  /\ IsConnected(b)
  /\ connected' = [connected EXCEPT ![b] = FALSE]
  /\ open' = [open EXCEPT ![b] = {}]
  /\ created' = [created EXCEPT ![b] = 0]
  /\ uaPages' = {p \in uaPages : p[1] # b}
  /\ pageUrl' = [p \in Pages |-> IF p[1] = b THEN Blank ELSE pageUrl[p]]
  /\ lastNav' = IF lastNav.page[1] = b THEN NoNav ELSE lastNav
  /\ inv' = [i \in Slots |->
               IF inv[i].ctx = "lh" THEN [inv[i] EXCEPT !.discDuring = TRUE]
               ELSE inv[i]]
  /\ UNCHANGED <<globals, nLaunched, exitHooks, exitVars, resolveVars>>

\* The user closes a tab; the browser keeps running.
ClosePage(b, k) ==
  /\ ~exited
  /\ IsConnected(b)
  /\ k \in open[b]
  /\ open' = [open EXCEPT ![b] = @ \ {k}]
  /\ uaPages' = uaPages \ {<<b, k>>}
  /\ pageUrl' = [pageUrl EXCEPT ![<<b, k>>] = Blank]
  /\ lastNav' = IF lastNav.page = <<b, k>> THEN NoNav ELSE lastNav
  /\ UNCHANGED <<globals, nLaunched, connected, created, exitHooks, exitVars, resolveVars,
                 inv>>

\* server.js:91-93: the process emits 'exit'; every registered listener runs
\* `if (globalBrowser) await globalBrowser.close()`.
Exit ==
  /\ ~exited
  /\ exited' = TRUE
  /\ closeCalls' = IF globalBrowser # Null THEN exitHooks ELSE 0
  /\ closeTarget' = IF globalBrowser # Null /\ exitHooks > 0
                    THEN globalBrowser ELSE Null
  /\ UNCHANGED <<globals, browserVars, uaPages, exitHooks, navVars,
                 resolveVars, inv>>

\* Steps of the invocations in flight once they have been accepted.
GetBrowserStep(i) ==
  LaunchDone(i) \/ LaunchFail(i) \/ GbPages(i) \/ GbNewPage(i) \/ GbSetUA(i)

GetPageStep(i) == GpCheck(i) \/ GpPages(i) \/ GpNewPage(i)

AuditStep(i) == LhGetPage(i) \/ LhRun(i)

PageToolStep(i) ==
  \/ ClickWait(i) \/ ClickAct(i) \/ FillWait(i) \/ FillAct(i)
  \/ Evaluate(i) \/ Inspect(i) \/ Screenshot(i)
  \/ PerfGoto(i) \/ PerfWait(i) \/ PerfEval(i)

Environment ==
  \/ \E b \in Browsers : Disconnect(b)
  \/ \E b \in Browsers, k \in 1..MaxPages : ClosePage(b, k)

\* The facade makes a call only once every earlier one has been answered.
InvokeAlone(i, tool, u, m) ==
  /\ \A j \in Slots : inv[j].pc = "idle"
  /\ Invoke(i, tool, u, m)

\* Non-overlapping invocations of all eight tools.
NextSeq ==
  \/ \E i \in Slots, t \in Tools \ {"navigate", "performance-entries"} :
       InvokeAlone(i, t, "", FALSE)
  \/ \E i \in Slots, u \in Urls : InvokeAlone(i, "navigate", u, FALSE)
  \/ \E i \in Slots, u \in Urls \cup {""}, m \in BOOLEAN :
       InvokeAlone(i, "performance-entries", u, m)
  \/ \E i \in Slots : GetBrowserStep(i)
  \/ \E i \in Slots : GetPageStep(i)
  \/ \E i \in Slots : NavGoto(i)
  \/ \E i \in Slots : PageToolStep(i)
  \/ \E i \in Slots : AuditStep(i)
  \/ \E i \in Slots : Return(i)
  \/ Environment
  \/ Exit

SpecSeq == Init /\ [][NextSeq]_vars

\* Overlapping invocations.  The handlers reach the shared state only through
\* getPage (all of them) and getBrowser (the audit), so navigate stands for
\* the seven handlers that call getPage once.
Running ==
  \/ \E i \in Slots : Invoke(i, "navigate", Blank, FALSE)
  \/ \E i \in Slots : Invoke(i, "lighthouse-report", "", FALSE)
  \/ \E i \in Slots : GetBrowserStep(i)
  \/ \E i \in Slots : GetPageStep(i)
  \/ \E i \in Slots : NavGoto(i)
  \/ \E i \in Slots : AuditStep(i)
  \/ \E i \in Slots : Return(i)
  \/ Environment

Next == Running \/ Exit

Spec == Init /\ [][Next]_vars

\* ------------------------------------- executable resolution on its own
\* getChromeExecutablePath called in an environment of ResolveEnvs, before
\* any tool has been invoked.
InitResolve ==
  /\ globalBrowser = Null
  /\ globalPage = NoPage
  /\ nLaunched = 0
  /\ connected = [b \in Browsers |-> FALSE]
  /\ open = [b \in Browsers |-> {}]
  /\ created = [b \in Browsers |-> 0]
  /\ uaPages = {}
  /\ exitHooks = 0
  /\ exited = FALSE
  /\ closeCalls = 0
  /\ closeTarget = Null
  /\ pageUrl = [p \in Pages |-> Blank]
  /\ lastNav = NoNav
  /\ resolveEnv \in ResolveEnvs
  /\ resolveResult = NoResult
  /\ inv = [i \in Slots |-> IdleInv]

\* server.js:19-62 runs to its return or throw.
Resolve ==
  /\ resolveResult = NoResult
  /\ resolveResult' = getChromeExecutablePath(resolveEnv)
  /\ UNCHANGED <<globals, browserVars, uaPages, exitHooks, exitVars, navVars,
                 resolveEnv, inv>>

\* A browser is installed or removed between two launches; the next call
\* looks the executable up again.
FileChange(p) ==
  /\ resolveEnv' = [resolveEnv EXCEPT !.exists =
                      IF p \in @ THEN @ \ {p} ELSE @ \cup {p}]
  /\ resolveEnv'.exists \in Existing(resolveEnv.defined)
  /\ resolveResult' = NoResult
  /\ UNCHANGED <<globals, browserVars, uaPages, exitHooks, exitVars, navVars,
                 inv>>

NextResolve == Resolve \/ \E p \in Files : FileChange(p)

SpecResolve == InitResolve /\ [][NextResolve]_vars

\* ================================================================ claims
ToolPcs == {"nav_goto", "cl_wait", "cl_act", "fl_wait", "fl_act", "ev_eval",
            "in_snap", "ss_shot", "pe_goto", "pe_wait", "pe_eval", "lh_run"}
LiveBrowsers == {b \in 1..nLaunched : connected[b]}
AllConnected == \A b \in 1..nLaunched : connected[b]
StoredDisconnected == globalBrowser # Null /\ ~IsConnected(globalBrowser)

\* C1: in a run of non-overlapping calls during which no browser has
\* disconnected, at most one browser is ever launched, and every getBrowser
\* call that returns, whether made by the audit handler or by getPage,
\* returns that one browser, which is the stored session.
C1_ReuseWhileConnected ==
  AllConnected =>
    /\ nLaunched <= 1
    /\ \A i \in Slots :
         inv[i].ret # -1 =>
           /\ inv[i].ret = 1
           /\ nLaunched = 1
           /\ globalBrowser = 1

\* A later call got the stored session back without launching anything.
C1_Witness ==
  /\ AllConnected
  /\ \E i \in Slots :
       inv[i].ret = 1 /\ inv[i].launchCalls = 0 /\ inv[i].pc = "gp_check"

\* C2 as stated: an invocation that found the stored session disconnected
\* makes exactly one launch.
C2_ExactlyOneLaunch ==
  \A i \in Slots : inv[i].startDisc => inv[i].launchCalls = 1

\* C2 amended: an invocation that finds the stored session disconnected
\* clears it and either fails at executable resolution without launching or
\* starts a launch at once; the seven getPage handlers launch exactly once,
\* the audit once or twice, and twice only when a browser disconnected
\* between its two session lookups; a handler is past getPage only after a
\* launch of its own has completed.
C2_RelaunchBeforeActing ==
  /\ [](\A i \in Slots :
          inv[i].startDisc =>
            /\ inv[i].launchCalls >= 1
            /\ inv[i].tool # "lighthouse-report" => inv[i].launchCalls = 1
            /\ inv[i].launchCalls <= 2
            /\ inv[i].launchCalls = 2 => inv[i].discDuring
            /\ inv[i].pc \in ToolPcs => inv[i].page[1] \in 1..nLaunched)
  /\ [][\A i \in Slots :
          (inv[i].pc = "idle" /\ inv'[i].pc # "idle" /\ StoredDisconnected) =>
            /\ globalBrowser' = Null
            /\ \/ inv'[i].pc = "gb_launch" /\ inv'[i].launchCalls = 1
               \/ /\ inv'[i].pc = "failed"
                  /\ inv'[i].err.cause \in {"Unsupported platform",
                                            "Chrome executable not found."}]_vars

\* A handler acts on its page after the one relaunch its invocation made.
C2_Witness ==
  \E i \in Slots :
    /\ inv[i].startDisc
    /\ inv[i].launchCalls = 1
    /\ inv[i].pc \in ToolPcs
    /\ PageAlive(inv[i].page)

\* C3: at most one launched browser is connected at any time.
C3_AtMostOneLive == Cardinality(LiveBrowsers) <= 1

\* C4: the stored active page is null or a page of the stored session.
C4_PageOfStoredSession ==
  globalPage = NoPage \/ (globalBrowser # Null /\ globalPage[1] = globalBrowser)

\* C5: a getBrowser call that finds the stored session disconnected clears
\* both references, and at the moment any launch is started neither a
\* disconnected browser nor a page of a disconnected browser is stored.
C5_ClearedBeforeLaunch ==
  [][\A i \in Slots :
       /\ (inv[i].pc \in {"idle", "lh_browser"} /\ inv'[i].pc # inv[i].pc
             /\ StoredDisconnected)
            => (globalBrowser' = Null /\ globalPage' = NoPage)
       /\ (inv[i].pc # "gb_launch" /\ inv'[i].pc = "gb_launch")
            => /\ globalBrowser' = Null
               /\ globalPage' = NoPage \/ connected'[globalPage'[1]]]_vars

\* C6: when the process has exited with a session stored, close() has been
\* called exactly once.
C6_CloseExactlyOnce ==
  (exited /\ globalBrowser # Null) => closeCalls = 1

\* The session state of the Session Manager.
SessStateOf(gb, conn, iv) ==
  IF gb # Null THEN IF conn[gb] THEN "Live" ELSE "Disconnected"
  ELSE IF \E i \in Slots : iv[i].pc = "gb_launch" THEN "Launching"
  ELSE "Absent"
SessState == SessStateOf(globalBrowser, connected, inv)

ChainEdges ==
  { <<"Absent", "Launching">>, <<"Launching", "Live">>,
    <<"Live", "Disconnected">>, <<"Disconnected", "Absent">>,
    <<"Disconnected", "Launching">> }

\* C7 as stated: the session state changes only along
\* Absent -> Launching -> Live -> Disconnected -> Absent (the cleanup and the
\* start of the launch being one step, Disconnected -> Launching).
C7_OnlyAlongChain ==
  [][SessState' # SessState => <<SessState, SessState'>> \in ChainEdges]_vars

\* C7 amended: the session state changes only along the chain, or from
\* Launching back to Absent when the launch fails, or from Disconnected to
\* Live when the launch of an overlapping invocation completes; it becomes
\* Live only by the completion of a launch that was in progress; a getBrowser
\* call that finds it Disconnected leaves it Launching or Absent; and before
\* the process exits some step other than the exit is always possible.
C7_SessionStateMachine ==
  /\ [][/\ SessState' # SessState =>
             <<SessState, SessState'>> \in
               ChainEdges \cup { <<"Launching", "Absent">>,
                                 <<"Disconnected", "Live">> }
        /\ (SessState' = "Live" /\ SessState # "Live") =>
             \E i \in Slots : inv[i].pc = "gb_launch" /\ inv'[i].pc = "gb_pages"
        /\ \A i \in Slots :
             (inv[i].pc \in {"idle", "lh_browser"} /\ inv'[i].pc # inv[i].pc
                /\ SessState = "Disconnected")
               => SessState' \in {"Launching", "Absent"}]_vars
  /\ [](~exited => ENABLED Running)

\* An invocation found the session Disconnected, cleared it, launched, and
\* its new browser is now the stored, Live session.
C7_Witness ==
  \E i \in Slots :
    /\ inv[i].startDisc
    /\ inv[i].pc = "gb_pages"
    /\ globalBrowser = inv[i].recvB
    /\ SessState = "Live"

TimedPcs == {"nav_goto", "cl_wait", "fl_wait", "pe_goto", "pe_wait"}
TimeoutStep(i) ==
  /\ inv[i].pc \in TimedPcs
  /\ inv'[i].pc = "failed"
  /\ inv'[i].err.cause = "Timeout"

\* C8: the step in which a bounded wait of navigate, click, fill or
\* performance-entries expires fails that invocation and changes neither the
\* stored session, nor the stored page, nor any browser or page; and an
\* invocation that starts while the stored session is connected gets that
\* session back without a launch.
C8_TimeoutKeepsSession ==
  [][\A i \in Slots :
       /\ TimeoutStep(i) => UNCHANGED <<globals, browserVars>>
       /\ (inv[i].pc = "idle" /\ inv'[i].pc # "idle" /\ IsConnected(globalBrowser))
            => /\ UNCHANGED <<globals, browserVars>>
               /\ inv'[i].launchCalls = 0
               /\ inv'[i].ret = globalBrowser]_vars

\* An invocation has failed on its timeout and the session it used is still
\* stored, connected, with its page open.
C8_Witness ==
  \E i \in Slots :
    /\ inv[i].pc = "failed"
    /\ inv[i].err.cause = "Timeout"
    /\ IsConnected(globalBrowser)
    /\ PageAlive(globalPage)

\* C9: when waitForSelector or the click/type of click or fill rejects, the
\* handler throws the wrapped error (`Failed to click`/`Failed to fill`)
\* carrying the message of the rejection.
C9_ClickFillWrapped ==
  [][\A i \in Slots :
       (inv[i].pc \in {"cl_wait", "cl_act", "fl_wait", "fl_act"}
          /\ inv'[i].pc = "failed")
         => /\ inv'[i].err.kind = "wrapped"
            /\ inv'[i].err.prefix =
                 (IF inv[i].tool = "click" THEN "Failed to click"
                  ELSE "Failed to fill")
            /\ inv'[i].err.cause \in PageFailures(inv[i].page, TRUE)]_vars

\* click has failed on the selector wait with the wrapped error.
C9_Witness ==
  \E i \in Slots :
    /\ inv[i].pc = "failed"
    /\ inv[i].tool = "click"
    /\ inv[i].err = Wrapped("Failed to click", "Timeout")

LibraryCauses == {"Timeout", "ProtocolError", "TargetClosed", "LaunchError",
                  "AuditError", "MalformedReport"}

\* C10: every failure of a library or audit call reaches the facade as a
\* wrapping error, never as the raw exception.
C10_AllFailuresWrapped ==
  \A i \in Slots :
    (inv[i].pc = "failed" /\ inv[i].err.cause \in LibraryCauses)
      => inv[i].err.kind = "wrapped"

\* A step taken by a performance-entries invocation in slot i, and the url
\* argument of that invocation.
PerfStep(i) ==
  /\ inv'[i] # inv[i]
  /\ "performance-entries" \in {inv[i].tool, inv'[i].tool}
PerfUrl(i) ==
  IF inv[i].tool = "performance-entries" THEN inv[i].url ELSE inv'[i].url

\* C11: with non-overlapping calls, a performance-entries invocation without
\* url changes the URL of no page in any of its steps, has made no
\* navigation when it waits for the mark or reads the entries, and reads
\* them from the page of the last navigation, whose URL is still the one
\* that navigation landed on; an invocation with url has made exactly one
\* navigation by then, of its own page only, which is the stored active
\* page and has landed on url or on the target of its redirect.
C11_NavigatesOnlyWithUrl ==
  /\ [](\A i \in Slots :
         inv[i].tool = "performance-entries"
           /\ inv[i].pc \in {"pe_wait", "pe_eval"}
         => IF inv[i].url = ""
            THEN /\ inv[i].navs = 0
                 /\ lastNav # NoNav
                    => /\ inv[i].page = lastNav.page
                       /\ pageUrl[inv[i].page] = lastNav.url
            ELSE /\ inv[i].navs = 1
                 /\ PageAlive(inv[i].page)
                    => /\ inv[i].page = globalPage
                       /\ lastNav.page = inv[i].page
                       /\ pageUrl[inv[i].page] = lastNav.url
                       /\ pageUrl[inv[i].page] \in Landing(inv[i].url))
  /\ [][\A i \in Slots :
          PerfStep(i)
          => IF PerfUrl(i) = ""
             THEN UNCHANGED navVars
             ELSE navVars' # navVars
                  => /\ inv[i].pc = "pe_goto"
                     /\ inv'[i].navs = 1
                     /\ \A p \in Pages \ {inv[i].page} :
                          pageUrl'[p] = pageUrl[p]]_vars

\* Reached: an invocation with url is about to read the entries of its
\* page, which a redirect has taken to another URL.
C11_Witness ==
  \E i \in Slots :
    /\ inv[i].tool = "performance-entries"
    /\ inv[i].pc = "pe_eval"
    /\ inv[i].url \in Urls
    /\ inv[i].navs = 1
    /\ PageAlive(inv[i].page)
    /\ pageUrl[inv[i].page] = "https://r.example/"

\* C12: with non-overlapping calls, a navigation that resolves leaves its
\* page at the URL it landed on (the url given or the target of its
\* redirect), and as long as that page has not been closed and its browser
\* has not disconnected, every later invocation, of whatever tool, holds
\* that same page when it acts, the page is the stored active page, and
\* its URL is still the one the navigation landed on.
C12_NextCallSeesNavigation ==
  /\ [](\A i \in Slots :
         inv[i].pc \in ToolPcs /\ lastNav # NoNav
         => /\ inv[i].page = lastNav.page
            /\ inv[i].page = globalPage
            /\ pageUrl[inv[i].page] = lastNav.url)
  /\ [][\A i \in Slots :
          inv[i].pc = "nav_goto" /\ inv'[i].pc = "done"
          => /\ lastNav'.page = inv[i].page
             /\ lastNav'.url \in Landing(inv[i].url)
             /\ pageUrl'[inv[i].page] = lastNav'.url]_vars

\* Reached: a click is about to act on the page that an earlier navigation
\* left at the target of a redirect.
C12_Witness ==
  \E i \in Slots :
    /\ inv[i].tool = "click"
    /\ inv[i].pc = "cl_act"
    /\ PageAlive(inv[i].page)
    /\ lastNav = [page |-> inv[i].page, url |-> "https://r.example/"]
    /\ pageUrl[inv[i].page] = "https://r.example/"

\* C13: when an audit invocation starts the audit engine, the port it
\* hands over is that of the stored session, that session is connected,
\* and the page the invocation resolved belongs to it.
C13_PortOfLiveSession ==
  [][\A i \in Slots :
       inv[i].pc # "lh_run" /\ inv'[i].pc = "lh_run"
       => /\ inv'[i].port = globalBrowser'
          /\ (IsConnected(inv[i].port))'
          /\ inv'[i].page[1] = inv'[i].port]_vars

\* The candidate list the claim speaks of, and the positions in it of the
\* files that exist.
CandidatesOf(platform) ==
  CASE platform = "win32" -> windowsPaths
    [] platform = "darwin" -> macPaths
    [] platform = "linux" -> linuxPaths
    [] OTHER -> <<>>
ExistingAt(env) ==
  {k \in DOMAIN CandidatesOf(env.platform) :
     CandidatesOf(env.platform)[k] \in env.exists}
NotFoundMessages == {"Unsupported platform", "Chrome executable not found."}

\* C14: a getChromeExecutablePath call returns the override when one is
\* set, whether or not that file exists; without an override it returns the
\* earliest entry of the platform's candidate list that exists on disk;
\* when no entry exists, or the platform has no list, it throws one of its
\* two not-found errors; what it returns is never empty.
C14_OverrideElseFirstExisting ==
  resolveResult # NoResult
  => /\ resolveResult.ok => resolveResult.val # ""
     /\ IF resolveEnv.override # ""
        THEN resolveResult = [ok |-> TRUE, val |-> resolveEnv.override]
        ELSE IF ExistingAt(resolveEnv) # {}
        THEN resolveResult =
               [ok |-> TRUE,
                val |-> CandidatesOf(resolveEnv.platform)[
                          Min(ExistingAt(resolveEnv))]]
        ELSE ~resolveResult.ok /\ resolveResult.val \in NotFoundMessages

GetPagePcs == {"gp_check", "gp_pages", "gp_newPage"}

\* C15: at every return of getPage the page handed to the handler is the
\* stored active page, is not closed and is a page of the stored session;
\* when the stored page was usable on entry it is returned as it was, and
\* otherwise it has been replaced by the first open page of the stored
\* session or, when that session had none, by a page opened just now.
C15_ReturnsStoredOpenPage ==
  [][\A i \in Slots :
       inv[i].pc \in GetPagePcs /\ inv'[i].pc \in ToolPcs
       => /\ inv'[i].page = globalPage'
          /\ (~IsClosed(globalPage))'
          /\ inv'[i].page[1] = globalBrowser'
          /\ inv[i].pc = "gp_check" => globalPage' = globalPage
          /\ inv[i].pc = "gp_pages"
             => inv'[i].page = <<globalBrowser, Min(open[globalBrowser])>>
          /\ inv[i].pc = "gp_newPage"
             => /\ open[globalBrowser] = {}
                /\ inv'[i].page[2] \in open'[globalBrowser]]_vars

\* A step in which getBrowser, called by the invocation in slot i, throws
\* from getChromeExecutablePath or from the rejection of puppeteer.launch.
ResolutionFails(i) ==
  /\ inv[i].pc \in {"idle", "lh_browser"}
  /\ inv'[i].pc = "failed"
LaunchFails(i) ==
  /\ inv[i].pc = "gb_launch"
  /\ inv'[i].pc = "failed"

\* C16: when executable resolution or the launch fails inside getBrowser,
\* the invocation fails with that error as it was thrown, and right after
\* the failure no session and no active page are stored, so that the next
\* getBrowser call resolves and launches again.
C16_FailedLaunchLeavesNothing ==
  [][\A i \in Slots :
       ResolutionFails(i) \/ LaunchFails(i)
       => /\ inv'[i].err.kind = "raw"
          /\ inv'[i].err.cause \in NotFoundMessages \cup {"LaunchError"}
          /\ globalBrowser' = Null
          /\ globalPage' = NoPage]_vars

\* C17: whenever a getBrowser call has just handed a browser to its caller,
\* at least one process-exit listener, which closes the stored session, has
\* been registered.
C17_ReturnedSessionHasExitHook ==
  \A i \in Slots : inv[i].ret \in Browsers => exitHooks >= 1

\* C18: once the process has exited, every launched browser that is still
\* connected is the one on which an exit listener called close().
C18_NoRunningBrowserLeftAtExit ==
  exited => \A b \in LiveBrowsers : closeCalls >= 1 /\ closeTarget = b

\* The positions at which a handler has a call on its page pending.
PageActionPcs == ToolPcs \ {"lh_run"}

\* C19: whenever a handler has a call pending on an open page, setUserAgent
\* has completed on that page.
C19_UserAgentBeforeAction ==
  \A i \in Slots :
    inv[i].pc \in PageActionPcs /\ PageAlive(inv[i].page)
    => inv[i].page \in uaPages

====
